---- MODULE Spec2Model ----
(***************************************************************************)
(* Model of tennis_simulator_app.py: the Monte Carlo match simulation      *)
(* (simulate_match) run from the scoreboard inputs, followed by the edge   *)
(* and Kelly staking computation.                                          *)
(*                                                                         *)
(* Python floats are modelled as exact rationals <<numerator, denominator>>*)
(* with a positive denominator, kept in lowest terms.  The values used are *)
(* chosen so that no comparison below depends on float rounding.           *)
(* random.random() is a nondeterministic choice from DrawVals.             *)
(***************************************************************************)
EXTENDS Integers, Sequences, FiniteSets, TLC

VARIABLES
    match_format,     \* sidebar radio: 3 or 5
    surface,          \* "Hard" | "Clay" | "Grass"
    pressure_toggle,  \* sidebar toggle
    kelly_factor,     \* 0.5 or 1.0
    sa_serve,         \* player A serve rate after the surface multiplier
    sb_serve,         \* player B serve rate after the surface multiplier
    sets_a, sets_b,   \* scoreboard inputs
    games_a, games_b,
    points_a, points_b,
    back_odds_a,
    bankroll,
    a_match_wins,     \* simulate_match locals
    trial,            \* number of iterations of the for loop started so far
    sa, sb,
    ga, gb,
    server,           \* whose rate the last draw selected: "A", "B" ("none" before any draw)
    p,                \* the probability the last draw was compared against
    u,                \* the last uniform draw compared against p
    sim_prob,
    market_prob,
    edge,
    kelly_stake,
    action,           \* "BACK" | "LAY" | "NO_EDGE" ("none" before the betting logic ran)
    pc

vars == <<match_format, surface, pressure_toggle, kelly_factor, sa_serve, sb_serve,
          sets_a, sets_b, games_a, games_b, points_a, points_b, back_odds_a, bankroll,
          a_match_wins, trial, sa, sb, ga, gb, server, p, u,
          sim_prob, market_prob, edge, kelly_stake, action, pc>>

inputs == <<match_format, surface, pressure_toggle, kelly_factor, sa_serve, sb_serve,
            sets_a, sets_b, games_a, games_b, points_a, points_b, back_odds_a, bankroll>>

simLocals == <<a_match_wins, trial, sa, sb, ga, gb, server, p, u>>

stakeVars == <<sim_prob, market_prob, edge, kelly_stake, action>>

(***************************************************************************)
(* Bounds of the model                                                     *)
(***************************************************************************)
\* Number of trials of the for loop explored (the code runs Trials of them).
NumTrials == 2
\* Largest games count a side may reach in one set (the code has no limit).
MaxGames == 8
\* In the termination model, games counts are reduced by one on both sides
\* once both have reached GameWrap.
GameWrap == 7

(***************************************************************************)
(* Program constants                                                       *)
(***************************************************************************)
Trials == 100000
GamesToWinSet == 6
GameMargin == 2
PressureGames == 5

(***************************************************************************)
(* Float arithmetic as exact rationals                                     *)
(***************************************************************************)
RECURSIVE GCD(_, _)
GCD(a, b) == IF b = 0 THEN a ELSE GCD(b, a % b)

Abs(x) == IF x < 0 THEN -x ELSE x

Rat(n, d) == LET g == GCD(Abs(n), d) IN <<n \div g, d \div g>>

RMul(a, b) == Rat(a[1] * b[1], a[2] * b[2])

RSub(a, b) == Rat(a[1] * b[2] - b[1] * a[2], a[2] * b[2])

\* a / b for b > 0
RDiv(a, b) == Rat(a[1] * b[2], a[2] * b[1])

RLt(a, b) == a[1] * b[2] < b[1] * a[2]

RLe(a, b) == a[1] * b[2] <= b[1] * a[2]

\* Python's max(a, b): the first argument unless the second is larger
RMax(a, b) == IF RLt(a, b) THEN b ELSE a

Zero == <<0, 1>>
Half == <<1, 2>>
One == <<1, 1>>

(***************************************************************************)
(* Inputs                                                                  *)
(***************************************************************************)
Formats == {3, 5}
Surfaces == {"Hard", "Clay", "Grass"}
\* get_player_stats' default serve rate 0.62, and the extreme rates 0 and 1
DefaultServe == <<31, 50>>
ServeRates == {Zero, DefaultServe, One}
\* values of random.random() in [0, 1)
DrawVals == {Zero, <<99, 100>>}
\* scoreboard games inputs explored (the widget allows 0..7)
GamesInputs == {0, 3}
PointsInputs == {0, 2}
OddsInputs == {<<101, 100>>, <<9, 5>>, <<2, 1>>}
BankrollInputs == {<<10, 1>>, <<1000, 1>>}
KellyFactors == {Half, One}
\* a_match_wins values explored for the staking step
WinsInputs == {0, 50000, 55000, 60000, 100000}

surf_mult(s) ==
    CASE s = "Hard" -> <<1, 1>>
      [] s = "Clay" -> <<24, 25>>
      [] s = "Grass" -> <<26, 25>>

sets_target == (match_format \div 2) + 1

(***************************************************************************)
(* Initial states                                                          *)
(***************************************************************************)
InitLocals ==
    /\ a_match_wins = 0
    /\ trial = 0
    /\ sa = 0 /\ sb = 0 /\ ga = 0 /\ gb = 0
    /\ server = "none"
    /\ p = Zero
    /\ u = Zero

InitStake ==
    /\ sim_prob = Zero
    /\ market_prob = Zero
    /\ edge = Zero
    /\ kelly_stake = Zero
    /\ action = "none"

\* Score-state exploration: every scoreboard sets input of both formats, default
\* player rates on a hard court, default odds and bankroll.
Init ==
    /\ match_format \in Formats
    /\ surface = "Hard"
    /\ pressure_toggle \in BOOLEAN
    /\ kelly_factor = Half
    /\ sa_serve = RMul(DefaultServe, surf_mult(surface))
    /\ sb_serve = RMul(DefaultServe, surf_mult(surface))
    /\ sets_a \in 0..match_format
    /\ sets_b \in 0..match_format
    /\ games_a \in GamesInputs
    /\ games_b \in GamesInputs
    /\ points_a = 0
    /\ points_b = 0
    /\ back_odds_a = <<2, 1>>
    /\ bankroll = <<1000, 1>>
    /\ InitLocals
    /\ InitStake
    /\ pc = "for"

\* Point-probability exploration: every surface and serve rate, from one set all
\* in a best-of-3.
PointInit ==
    /\ match_format = 3
    /\ surface \in Surfaces
    /\ pressure_toggle \in BOOLEAN
    /\ kelly_factor = Half
    /\ \E ra \in ServeRates, rb \in ServeRates :
          /\ sa_serve = RMul(ra, surf_mult(surface))
          /\ sb_serve = RMul(rb, surf_mult(surface))
    /\ sets_a = 1
    /\ sets_b = 1
    /\ games_a = 0
    /\ games_b = 0
    /\ points_a \in PointsInputs
    /\ points_b = 0
    /\ back_odds_a = <<2, 1>>
    /\ bankroll = <<1000, 1>>
    /\ InitLocals
    /\ InitStake
    /\ pc = "for"

\* Termination exploration: a best-of-3 from any score below the target.
LiveInit ==
    /\ match_format = 3
    /\ surface = "Hard"
    /\ pressure_toggle = TRUE
    /\ kelly_factor = Half
    /\ sa_serve = RMul(DefaultServe, surf_mult(surface))
    /\ sb_serve = RMul(DefaultServe, surf_mult(surface))
    /\ sets_a \in 0..1
    /\ sets_b \in 0..1
    /\ games_a = 0
    /\ games_b = 0
    /\ points_a = 0
    /\ points_b = 0
    /\ back_odds_a = <<2, 1>>
    /\ bankroll = <<1000, 1>>
    /\ InitLocals
    /\ InitStake
    /\ pc = "for"

\* Staking exploration: the state right after simulate_match returned, for a
\* range of win counts out of the Trials trials, odds, bankrolls and multipliers.
StakeInit ==
    /\ match_format = 3
    /\ surface = "Hard"
    /\ pressure_toggle = TRUE
    /\ kelly_factor \in KellyFactors
    /\ sa_serve = RMul(DefaultServe, surf_mult(surface))
    /\ sb_serve = RMul(DefaultServe, surf_mult(surface))
    /\ sets_a = 0
    /\ sets_b = 0
    /\ games_a = 0
    /\ games_b = 0
    /\ points_a = 0
    /\ points_b = 0
    /\ back_odds_a \in OddsInputs
    /\ bankroll \in BankrollInputs
    /\ a_match_wins \in WinsInputs
    /\ trial = Trials
    /\ sa = 0 /\ sb = 0 /\ ga = 0 /\ gb = 0
    /\ server = "none"
    /\ p = Zero
    /\ u = Zero
    /\ sim_prob = Rat(a_match_wins, Trials)
    /\ market_prob = Zero
    /\ edge = Zero
    /\ kelly_stake = Zero
    /\ action = "none"
    /\ pc = "market"

(***************************************************************************)
(* simulate_match                                                          *)
(***************************************************************************)
\* variant: side A is let to play on at the target
MatchRunningTie(x, y) == x <= sets_target /\ y < sets_target

\* while sa < sets_to_win and sb < sets_to_win
MatchRunning(x, y) == x < sets_target /\ y < sets_target

\* variant: the set ends at 7-6, as with a tiebreak
SetRunningTiebreak(x, y) ==
    \/ (x < GamesToWinSet /\ y < GamesToWinSet)
    \/ (Abs(x - y) < GameMargin /\ x + y < 2 * GamesToWinSet + 1)

\* while (ga < 6 and gb < 6) or abs(ga - gb) < 2
SetRunning(x, y) ==
    \/ (x < GamesToWinSet /\ y < GamesToWinSet)
    \/ Abs(x - y) < GameMargin

\* p = a_serve if random.random() < 0.5 else b_serve
PickServer(u1) == IF RLt(u1, Half) THEN "A" ELSE "B"

\* the rate selected, times 1.03 under pressure at 5 games or more
PointProb(srv) ==
    LET base == IF srv = "A" THEN sa_serve ELSE sb_serve
    IN  IF pressure_toggle /\ (ga >= PressureGames \/ gb >= PressureGames)
        THEN RMul(base, <<103, 100>>)
        ELSE base

\* for _ in range(...): sa, sb = sets_a, sets_b
StartTrial ==
    /\ pc = "for"
    /\ trial < NumTrials
    /\ trial' = trial + 1
    /\ sa' = sets_a
    /\ sb' = sets_b
    /\ pc' = "match"
    /\ UNCHANGED <<inputs, stakeVars, a_match_wins, ga, gb, server, p, u>>

\* return a_match_wins / <number of trials>
Return ==
    /\ pc = "for"
    /\ trial >= NumTrials
    /\ sim_prob' = Rat(a_match_wins, NumTrials)
    /\ pc' = "market"
    /\ UNCHANGED <<inputs, simLocals, market_prob, edge, kelly_stake, action>>

\* outer while true: ga, gb = 0, 0
StartSet ==
    /\ pc = "match"
    /\ MatchRunning(sa, sb)
    /\ ga' = 0
    /\ gb' = 0
    /\ pc' = "set"
    /\ UNCHANGED <<inputs, stakeVars, a_match_wins, trial, sa, sb, server, p, u>>

\* outer while false: if sa > sb: a_match_wins += 1
EndTrial ==
    /\ pc = "match"
    /\ ~MatchRunning(sa, sb)
    /\ a_match_wins' = IF sa > sb THEN a_match_wins + 1 ELSE a_match_wins
    /\ pc' = "for"
    /\ UNCHANGED <<inputs, stakeVars, trial, sa, sb, ga, gb, server, p, u>>

\* the body of the inner while, with the two draws u1 and u2
DrawBody(u1, u2) ==
    LET srv == PickServer(u1)
        q == PointProb(srv)
    IN  /\ server' = srv
        /\ p' = q
        /\ u' = u2
        /\ IF RLt(u2, q)
           THEN ga' = ga + 1 /\ gb' = gb
           ELSE gb' = gb + 1 /\ ga' = ga

\* inner while true
Draw ==
    /\ pc = "set"
    /\ SetRunning(ga, gb)
    /\ ga < MaxGames /\ gb < MaxGames
    /\ \E u1 \in DrawVals, u2 \in DrawVals : DrawBody(u1, u2)
    /\ pc' = "set"
    /\ UNCHANGED <<inputs, stakeVars, a_match_wins, trial, sa, sb>>

\* inner while false: if ga > gb: sa += 1 else: sb += 1
EndSet ==
    /\ pc = "set"
    /\ ~SetRunning(ga, gb)
    /\ IF ga > gb
       THEN sa' = sa + 1 /\ sb' = sb
       ELSE sb' = sb + 1 /\ sa' = sa
    /\ pc' = "match"
    /\ UNCHANGED <<inputs, stakeVars, a_match_wins, trial, ga, gb, server, p, u>>

(***************************************************************************)
(* Edge and Kelly staking                                                  *)
(***************************************************************************)
\* market_prob = 1 / back_odds_a if back_odds_a > 0 else 0; edge = sim_prob - market_prob
ComputeEdge ==
    /\ pc = "market"
    /\ market_prob' = IF RLt(Zero, back_odds_a) THEN RDiv(One, back_odds_a) ELSE Zero
    /\ edge' = RSub(sim_prob, market_prob')
    /\ pc' = "kelly"
    /\ UNCHANGED <<inputs, simLocals, sim_prob, kelly_stake, action>>

\* the 2 pound minimum stake
MinimumStake == <<2, 1>>

\* kelly_stake = max(2, (bankroll * edge) / max(0.01, (back_odds_a - 1))) * kelly_factor
KellyStake ==
    RMul(RMax(MinimumStake,
              RDiv(RMul(bankroll, edge), RMax(<<1, 100>>, RSub(back_odds_a, One)))),
         kelly_factor)

BettingLogic ==
    /\ pc = "kelly"
    /\ kelly_stake' = KellyStake
    /\ action' = IF RLt(Zero, edge) THEN "BACK"
                 ELSE IF RLt(edge, Zero) THEN "LAY"
                 ELSE "NO_EDGE"
    /\ pc' = "done"
    /\ UNCHANGED <<inputs, simLocals, sim_prob, market_prob, edge>>

\* the stake the action message recommends: none under "No Edge"
RecommendedStake == IF action \in {"BACK", "LAY"} THEN kelly_stake ELSE Zero

(***************************************************************************)
(* Termination model: the inner loop reads ga and gb only through          *)
(* ga < 6, gb < 6, ga - gb and ga > gb, all of which are unchanged when    *)
(* both counts are at least GameWrap and both are reduced by one.  The     *)
(* wrapped counts make an endless set a cycle of finitely many states.     *)
(***************************************************************************)
WrapGames(x, y) == IF x >= GameWrap /\ y >= GameWrap THEN <<x - 1, y - 1>> ELSE <<x, y>>

DrawWrapped ==
    /\ pc = "set"
    /\ SetRunning(ga, gb)
    /\ \E u1 \in DrawVals, u2 \in DrawVals :
          LET srv == PickServer(u1)
              q == PointProb(srv)
              w == IF RLt(u2, q) THEN WrapGames(ga + 1, gb) ELSE WrapGames(ga, gb + 1)
          IN  /\ server' = srv
              /\ p' = q
              /\ u' = u2
              /\ ga' = w[1]
              /\ gb' = w[2]
    /\ pc' = "set"
    /\ UNCHANGED <<inputs, stakeVars, a_match_wins, trial, sa, sb>>

(***************************************************************************)
(* Specifications                                                          *)
(***************************************************************************)
Next ==
    \/ StartTrial
    \/ Return
    \/ StartSet
    \/ EndTrial
    \/ Draw
    \/ EndSet
    \/ ComputeEdge
    \/ BettingLogic

Spec == Init /\ [][Next]_vars

PointSpec == PointInit /\ [][Next]_vars

StakeNext ==
    \/ ComputeEdge
    \/ BettingLogic

StakeSpec == StakeInit /\ [][StakeNext]_vars

LiveNext ==
    \/ StartTrial
    \/ Return
    \/ StartSet
    \/ EndTrial
    \/ DrawWrapped
    \/ EndSet
    \/ ComputeEdge
    \/ BettingLogic

\* The interpreter keeps executing the script: a step that can be taken is taken.
LiveSpec == LiveInit /\ [][LiveNext]_vars /\ WF_vars(LiveNext)

(***************************************************************************)
(* Properties                                                              *)
(***************************************************************************)
InTrial == pc \in {"match", "set"}

\* C1: once the betting logic has run, a positive edge (win probability minus
\* 1/odds) recommends a stake of at least the 2 pound minimum, and an edge of
\* zero or less recommends a stake of exactly 0.
C1_StakeRule ==
    pc = "done" =>
        LET e == RSub(sim_prob, RDiv(One, back_odds_a))
        IN  /\ RLt(Zero, e) => RLe(<<2, 1>>, RecommendedStake)
            /\ RLe(e, Zero) => RecommendedStake = Zero

\* C2: once the betting logic has run, whenever the Kelly fraction
\* f = (p*(odds-1) - (1-p)) / (odds-1) is positive and bankroll * f * multiplier
\* is at least the minimum stake, the stake equals bankroll * f * multiplier.
C2_KellyFormula ==
    pc = "done" =>
        LET b == RSub(back_odds_a, One)
            f == RDiv(RSub(RMul(sim_prob, b), RSub(One, sim_prob)), b)
            raw == RMul(RMul(bankroll, f), kelly_factor)
        IN  (RLt(Zero, f) /\ RLe(<<2, 1>>, raw)) => kelly_stake = raw

\* C3: the probability a uniform draw was compared against lies in [0.01, 0.99].
C3_Clamped ==
    server # "none" => (RLe(<<1, 100>>, p) /\ RLe(p, <<99, 100>>))

\* C4: every draw step credits by role: a draw below the server's probability
\* increments the server's count, any other draw the receiver's count.
C4_CreditByRole ==
    [][(pc = "set" /\ pc' = "set") =>
          LET serverWins == RLt(u', p')
              aGets == (server' = "A") = serverWins
          IN  IF aGets THEN ga' = ga + 1 /\ gb' = gb
                       ELSE gb' = gb + 1 /\ ga' = ga]_vars

\* C5: every trial starts from the supplied score: its sets are the supplied sets
\* and the games of its first set are the supplied games.
C5_StartsFromScore ==
    [][/\ (pc = "for" /\ pc' = "match") => (sa' = sets_a /\ sb' = sets_b)
       /\ (pc = "match" /\ pc' = "set" /\ sa = sets_a /\ sb = sets_b)
             => (ga' = games_a /\ gb' = games_b)]_vars

\* C6: within a set, the server of each game is the opposite side from the
\* server of the previous game.
C6_ServerAlternates ==
    [][(pc = "set" /\ pc' = "set" /\ ga + gb > 0) => server' # server]_vars

\* C7: every trial that has started eventually ends (the for loop is reached again).
C7_TrialEnds == InTrial ~> (pc = "for")

\* C8: from a start with both sides below the sets target, within a trial each
\* side's sets are at most the target and not both at the target; once a side is
\* at the target the only step is the end of the trial, which changes no score
\* counter and counts a win for A exactly when A is the side at the target.
WellFormedStart == sets_a < (match_format + 1) \div 2 /\ sets_b < (match_format + 1) \div 2

C8_SetsBounded ==
    (WellFormedStart /\ InTrial) =>
        LET t == (match_format + 1) \div 2
        IN  sa <= t /\ sb <= t /\ ~(sa = t /\ sb = t)

C8_StopsAtTarget ==
    LET t == (match_format + 1) \div 2
    IN  (WellFormedStart /\ InTrial /\ (sa = t \/ sb = t)) =>
            /\ pc' = "for"
            /\ sa' = sa /\ sb' = sb /\ ga' = ga /\ gb' = gb
            /\ a_match_wins' = IF sa = t THEN a_match_wins + 1 ELSE a_match_wins

C8_MatchRule == []C8_SetsBounded /\ [][C8_StopsAtTarget]_vars

C8_Witness ==
    /\ WellFormedStart
    /\ pc = "for"
    /\ trial = 1
    /\ sa = (match_format + 1) \div 2
    /\ sb < sa
    /\ a_match_wins = 1

\* C10: a set is awarded exactly when a side has at least 6 games and leads by at
\* least 2, to that side and at once; otherwise one more game is played (from 6-6
\* too); sets change at no other point of a trial; a new set starts at 0-0.
SetWonBy(x, y) == x >= 6 /\ x - y >= 2

C10_SetRule ==
    [][/\ (pc = "set" /\ (SetWonBy(ga, gb) \/ SetWonBy(gb, ga))) =>
             /\ pc' = "match" /\ ga' = ga /\ gb' = gb
             /\ IF SetWonBy(ga, gb) THEN sa' = sa + 1 /\ sb' = sb
                                    ELSE sb' = sb + 1 /\ sa' = sa
       /\ (pc = "set" /\ ~(SetWonBy(ga, gb) \/ SetWonBy(gb, ga))) =>
             /\ pc' = "set" /\ sa' = sa /\ sb' = sb
             /\ ga' + gb' = ga + gb + 1 /\ ga' >= ga /\ gb' >= gb
       /\ (pc = "match") => (sa' = sa /\ sb' = sb)
       /\ (pc = "match" /\ pc' = "set") => (ga' = 0 /\ gb' = 0)]_vars

C10_Witness ==
    /\ pc = "match"
    /\ ga = 8 /\ gb = 6
    /\ sa = sets_a + 1
    /\ sb = sets_b

\* C9: a supplied score with a side's sets at or above the sets target never
\* yields a win-probability value (the script never gets past the simulation).
C9_MalformedRejected ==
    (sets_a >= (match_format + 1) \div 2 \/ sets_b >= (match_format + 1) \div 2)
        => pc \notin {"market", "kelly", "done"}

====
